---------------------------- MODULE Spec2Model ----------------------------
(***************************************************************************)
(* Guest IDT emulation of the HyperDbg hypervisor                          *)
(* (hprdbghv/code/vmm/vmx/IdtEmulation.c): the exception/NMI dispatcher,   *)
(* the page-fault re-injector, the external-interrupt dispatcher and the   *)
(* per-core pending-interrupt queue with its interrupt-window drain.       *)
(*                                                                         *)
(* One core is modelled: each core owns its VIRTUAL_MACHINE_STATE and      *)
(* handles its VM-exits strictly one after the other, so one step of the   *)
(* model is one complete handler call.  Every call leaves in `calls' the   *)
(* ordered list of what it asked of its collaborators (VMCS reads and      *)
(* writes, control primitives, debugger callbacks).                        *)
(***************************************************************************)
EXTENDS Integers, Sequences, FiniteSets

(***************************************************************************)
(* Bounds of the model.                                                    *)
(***************************************************************************)

\* Number of slots of VCpu->PendingExternalInterrupts.  The program takes it
\* from a header that is not part of this unit; the model keeps it small.
PENDING_INTERRUPTS_BUFFER_CAPACITY == 2

(***************************************************************************)
(* Hardware encodings (Intel SDM, through the ia32 headers).               *)
(***************************************************************************)

EXCEPTION_VECTOR_DEBUG_BREAKPOINT == 1
EXCEPTION_VECTOR_NMI == 2
EXCEPTION_VECTOR_BREAKPOINT == 3
EXCEPTION_VECTOR_UNDEFINED_OPCODE == 6
EXCEPTION_VECTOR_PAGE_FAULT == 14
INTERRUPT_TYPE_EXTERNAL_INTERRUPT == 0
INTERRUPT_TYPE_NMI == 2
INTERRUPT_TYPE_HARDWARE_EXCEPTION == 3
INTERRUPT_TYPE_SOFTWARE_EXCEPTION == 6

\* NULL, the empty-slot sentinel and the "no address" sentinel.
NULL == 0

\* The raw form AsUInt is a 32-bit value.  It is written here as the same 32
\* bits read in two's complement, the widest integer TLC computes
\* with: bit 31, the valid bit, is the sign, and bits 0..30 are the bits of
\* the unsigned value (\div rounds down and % is never negative).
ValidBit == -2147483647 - 1

\* VMEXIT_INTERRUPT_INFORMATION: the fields of the raw form.
Vector(d) == d % 256
InterruptionType(d) == (d \div 256) % 8
ErrorCodeValid(d) == (d \div 2048) % 2 = 1
Valid(d) == d < 0

\* Builds the raw form from its fields.
MakeInterruption(type, vector, ecv, valid) ==
    vector + 256 * type + (IF ecv THEN 2048 ELSE 0) + (IF valid THEN ValidBit ELSE 0)

(***************************************************************************)
(* Inputs of the model.                                                    *)
(***************************************************************************)

ExtA == MakeInterruption(INTERRUPT_TYPE_EXTERNAL_INTERRUPT, 48, FALSE, TRUE)
ExtB == MakeInterruption(INTERRUPT_TYPE_EXTERNAL_INTERRUPT, 49, FALSE, TRUE)
ExtInvalid == MakeInterruption(INTERRUPT_TYPE_EXTERNAL_INTERRUPT, 48, FALSE, FALSE)
HwGP == MakeInterruption(INTERRUPT_TYPE_HARDWARE_EXCEPTION, 13, TRUE, TRUE)
HwDE == MakeInterruption(INTERRUPT_TYPE_HARDWARE_EXCEPTION, 0, FALSE, TRUE)
HwBP == MakeInterruption(INTERRUPT_TYPE_SOFTWARE_EXCEPTION, EXCEPTION_VECTOR_BREAKPOINT, FALSE, TRUE)
HwUD == MakeInterruption(INTERRUPT_TYPE_HARDWARE_EXCEPTION, EXCEPTION_VECTOR_UNDEFINED_OPCODE, FALSE, TRUE)
HwPF == MakeInterruption(INTERRUPT_TYPE_HARDWARE_EXCEPTION, EXCEPTION_VECTOR_PAGE_FAULT, TRUE, TRUE)
HwDB == MakeInterruption(INTERRUPT_TYPE_HARDWARE_EXCEPTION, EXCEPTION_VECTOR_DEBUG_BREAKPOINT, FALSE, TRUE)
HwNMI == MakeInterruption(INTERRUPT_TYPE_NMI, EXCEPTION_VECTOR_NMI, FALSE, TRUE)

\* Descriptors handed to the external-interrupt exit handler: the all-zero
\* one (valid bit clear), two valid external interrupts, a non-zero one of
\* that type with the valid bit clear, and one of another type that carries
\* an error code.
ExternalDescriptors == {NULL, ExtA, ExtB, ExtInvalid, HwGP}

\* Descriptors handed to the enqueue when it is called directly: the same.
QueueDescriptors == ExternalDescriptors

\* Descriptors handed to the exception/NMI exit handler.
ExceptionDescriptors == {HwBP, HwUD, HwPF, HwDB, HwNMI, HwGP, HwDE}

\* Values of the VM-exit interruption error code field.
ExitErrorCodes == {0, 2}

\* Values of the exit qualification field and of CR2.
Addresses == {0, 4096}

(***************************************************************************)
(* The collaborators of this unit, as the entries they leave in `calls':   *)
(* <<name, value>>, booleans written 0 and 1.                              *)
(***************************************************************************)

B2N(b) == IF b THEN 1 ELSE 0

Call(name, value) == << <<name, value>> >>

HvSuppressRipIncrement == Call("HvSuppressRipIncrement", 0)

HvSetInterruptWindowExiting(enable) == Call("HvSetInterruptWindowExiting", B2N(enable))

VmwriteEntryInterruptionInfo(d) == Call("vmwrite VMCS_CTRL_VMENTRY_INTERRUPTION_INFORMATION_FIELD", d)

VmwriteEntryErrorCode(e) == Call("vmwrite VMCS_CTRL_VMENTRY_EXCEPTION_ERROR_CODE", e)

VmreadExitErrorCode(e) == Call("vmread VMCS_VMEXIT_INTERRUPTION_ERROR_CODE", e)

\* Generic forwarding: reprograms the entry-injection field with the
\* descriptor and, when its error-code-valid bit is set, the entry error-code
\* field with the exit's error code.
EventInjectInterruptOrException(d, exitErr) ==
    VmwriteEntryInterruptionInfo(d)
    \o (IF ErrorCodeValid(d)
        THEN VmreadExitErrorCode(exitErr) \o VmwriteEntryErrorCode(exitErr)
        ELSE << >>)

\* Forwards a synthetic #BP (software exception, no error code).
EventInjectBreakpoint ==
    Call("EventInjectBreakpoint", 0) \o VmwriteEntryInterruptionInfo(HwBP)

\* Forwards a synthetic #UD; it is handed the core's state and keeps the
\* instruction pointer on the offending instruction.
EventInjectUndefinedOpcode ==
    Call("EventInjectUndefinedOpcode", 0) \o VmwriteEntryInterruptionInfo(HwUD)
    \o HvSuppressRipIncrement

(***************************************************************************)
(* What a call log says.                                                   *)
(***************************************************************************)

Named(log, name) == {k \in 1..Len(log) : log[k][1] = name}

Count(log, name) == Cardinality(Named(log, name))

CountWith(log, name, value) ==
    Cardinality({k \in Named(log, name) : log[k][2] = value})

InjectionWrites(log) == Named(log, "vmwrite VMCS_CTRL_VMENTRY_INTERRUPTION_INFORMATION_FIELD")

ErrorCodeWrites(log) == Named(log, "vmwrite VMCS_CTRL_VMENTRY_EXCEPTION_ERROR_CODE")

\* The value of the last write of `name' in the log, `default' when none.
LastValue(log, name, default) ==
    IF Named(log, name) = {} THEN default
    ELSE log[CHOOSE k \in Named(log, name) : \A j \in Named(log, name) : j <= k][2]

(***************************************************************************)
(* IdtEmulationHandlePageFaults: re-injects a #PF.                         *)
(***************************************************************************)

\* __vmx_vmread stores 8 bytes at the address it is given.  Lines 35, 150
\* and 418 give it the address of a 4-byte local, line 304 that of the
\* 4-byte InterruptibilityState: the 4 bytes beyond the local are overwritten
\* (with 0, the upper half of a 32-bit field), and what lies there is the
\* build's choice.  "spare": nothing that is used afterwards.  "frame": a
\* saved register or the frame linkage of the caller, and the return does
\* not resume the caller: the core executes nothing more.  "GuestRflags":
\* the low half of the RFLAGS value read at line 303.
BeyondPageFaultCode == {"spare", "frame"}

BeyondInterruptibilityState == {"spare", "GuestRflags", "frame"}

BeyondErrorCode == {"spare", "frame"}

\* The return of a function whose frame a vmread has overwritten.
ReturnThroughOverwrittenFrame == Call("return through the overwritten frame", 0)

\* How a handler returns after a store that overwrote what beyond names.
ReturnAfterStore(beyond) ==
    IF beyond = "frame" THEN ReturnThroughOverwrittenFrame ELSE << >>

\* The address written to CR2: the exit qualification when the caller
\* passes NULL, the caller's address otherwise.
PageFaultCr2(Address, qual) == IF Address = NULL THEN qual ELSE Address

\* beyond: what the store of line 35 overwrote beyond PageFaultCode.
IdtEmulationHandlePageFaults(d, Address, ErrorCode, exitErr, qual, beyond) ==
    VmreadExitErrorCode(exitErr)
    \o (IF Address = NULL
        THEN Call("vmread VMCS_EXIT_QUALIFICATION", qual)
             \o Call("writecr2", PageFaultCr2(Address, qual))
        ELSE Call("writecr2", PageFaultCr2(Address, qual)))
    \o HvSuppressRipIncrement
    \o VmwriteEntryInterruptionInfo(d)
    \o (IF ErrorCodeValid(d) THEN VmwriteEntryErrorCode(ErrorCode) ELSE << >>)
    \o (IF beyond = "frame" THEN ReturnThroughOverwrittenFrame ELSE << >>)

(***************************************************************************)
(* IdtEmulationHandleExceptionAndNmi: the exception/NMI dispatcher.        *)
(* ans holds what each collaborator would answer if asked; beyond holds    *)
(* what the store of line 150 overwrote beyond ErrorCode (dispatcher) and   *)
(* what that of line 35 did beyond PageFaultCode (reinjector).             *)
(***************************************************************************)

\* The NMI test without RegisterBreakOnMtf.
NmiIgnored_WithoutBreakOnMtf(onContinue, onContinueMtf, breakOnMtf) ==
    onContinue \/ onContinueMtf

\* The NMI case: any of the three flags makes the dispatcher ignore the NMI.
NmiIgnored(onContinue, onContinueMtf, breakOnMtf) ==
    onContinue \/ onContinueMtf \/ breakOnMtf

\* The breakpoint case asking the debugger before the EPT probe.
BreakpointCase_DebuggerFirst(ans) ==
    Call("DebuggingCallbackHandleBreakpointException", B2N(ans.bp))
    \o (IF ~ans.bp
        THEN Call("EptCheckAndHandleBreakpoint", B2N(ans.ept))
             \o (IF ~ans.ept
                 THEN HvSuppressRipIncrement \o EventInjectBreakpoint
                 ELSE << >>)
        ELSE << >>)

BreakpointCase(ans) ==
    Call("EptCheckAndHandleBreakpoint", B2N(ans.ept))
    \o (IF ~ans.ept
        THEN Call("DebuggingCallbackHandleBreakpointException", B2N(ans.bp))
             \o (IF ~ans.bp
                 THEN HvSuppressRipIncrement \o EventInjectBreakpoint
                 ELSE << >>)
        ELSE << >>)

UndefinedOpcodeCase(ans) ==
    Call("SyscallHookHandleUD", B2N(ans.ud))
    \o (IF ~ans.ud THEN EventInjectUndefinedOpcode ELSE << >>)

PageFaultCase(d, ans, exitErr, qual, cr2, beyond) ==
    LET body == VmreadExitErrorCode(exitErr)
                \o Call("readcr2", cr2)
                \o Call("DebuggingCallbackConditionalPageFaultException", B2N(ans.pf))
                \o (IF ans.pf THEN << >>
                    ELSE IdtEmulationHandlePageFaults(d, NULL, exitErr, exitErr, qual,
                                                      beyond.reinjector))
    IN  body
        \o (IF beyond.dispatcher = "frame"
               /\ Count(body, "return through the overwritten frame") = 0
            THEN ReturnThroughOverwrittenFrame
            ELSE << >>)

DebugBreakpointCase(d, ans, exitErr) ==
    Call("DebuggingCallbackHandleDebugBreakpointException", B2N(ans.db))
    \o (IF ~ans.db THEN EventInjectInterruptOrException(d, exitErr) ELSE << >>)

NmiCase(d, onContinue, onContinueMtf, breakOnMtf, exitErr) ==
    IF NmiIgnored(onContinue, onContinueMtf, breakOnMtf)
    THEN << >>
    ELSE EventInjectInterruptOrException(d, exitErr)

IdtEmulationHandleExceptionAndNmi(d, onContinue, onContinueMtf, breakOnMtf, ans, exitErr, qual, cr2, beyond) ==
    CASE Vector(d) = EXCEPTION_VECTOR_BREAKPOINT -> BreakpointCase(ans)
      [] Vector(d) = EXCEPTION_VECTOR_UNDEFINED_OPCODE -> UndefinedOpcodeCase(ans)
      [] Vector(d) = EXCEPTION_VECTOR_PAGE_FAULT -> PageFaultCase(d, ans, exitErr, qual, cr2, beyond)
      [] Vector(d) = EXCEPTION_VECTOR_DEBUG_BREAKPOINT -> DebugBreakpointCase(d, ans, exitErr)
      [] Vector(d) = EXCEPTION_VECTOR_NMI ->
             NmiCase(d, onContinue, onContinueMtf, breakOnMtf, exitErr)
      [] OTHER -> EventInjectInterruptOrException(d, exitErr)

(***************************************************************************)
(* IdtEmulationInjectInterruptWhenInterruptWindowIsOpen: the enqueue.      *)
(***************************************************************************)

\* The loop of the enqueue falling back on the last slot when none is NULL.
FirstEmptySlot_OverwritesLast(q, i) ==
    IF \A j \in i..(PENDING_INTERRUPTS_BUFFER_CAPACITY - 1) : q[j] # NULL
    THEN PENDING_INTERRUPTS_BUFFER_CAPACITY - 1
    ELSE CHOOSE j \in i..(PENDING_INTERRUPTS_BUFFER_CAPACITY - 1) :
             /\ q[j] = NULL
             /\ \A k \in i..(j - 1) : q[k] # NULL

\* The loop of the enqueue: the first index whose slot is NULL, the
\* capacity when there is none.
RECURSIVE FirstEmptySlot(_, _)
FirstEmptySlot(q, i) ==
    IF i >= PENDING_INTERRUPTS_BUFFER_CAPACITY THEN PENDING_INTERRUPTS_BUFFER_CAPACITY
    ELSE IF q[i] = NULL THEN i
    ELSE FirstEmptySlot(q, i + 1)

\* The enqueue with FoundAPlaceForFutureInjection initialised to TRUE.
InjectInterrupt_FoundInitialisedTrue(q, d) ==
    LET i == FirstEmptySlot(q, 0)
    IN  IF i < PENDING_INTERRUPTS_BUFFER_CAPACITY
        THEN [queue |-> [q EXCEPT ![i] = d], found |-> TRUE]
        ELSE [queue |-> q, found |-> TRUE]

\* The queue after the call and the value returned.
IdtEmulationInjectInterruptWhenInterruptWindowIsOpen(q, d) ==
    LET i == FirstEmptySlot(q, 0)
    IN  IF i < PENDING_INTERRUPTS_BUFFER_CAPACITY
        THEN [queue |-> [q EXCEPT ![i] = d], found |-> TRUE]
        ELSE [queue |-> q, found |-> FALSE]

(***************************************************************************)
(* IdtEmulationHandleExternalInterrupt: the external-interrupt dispatcher. *)
(***************************************************************************)

\* The first branch: the interrupt is held back for the instrumentation step.
SuppressedOnContinue(onContinue, onContinueMtf) == onContinue \/ onContinueMtf

\* The second branch testing the type alone, not the valid bit.
IsExternalInterrupt_TypeOnly(d) ==
    InterruptionType(d) = INTERRUPT_TYPE_EXTERNAL_INTERRUPT

\* The second branch: a valid descriptor of the external-interrupt type.
IsExternalInterrupt(d) ==
    Valid(d) /\ InterruptionType(d) = INTERRUPT_TYPE_EXTERNAL_INTERRUPT

\* GuestRflags.InterruptEnableFlag set and not blocked by "mov ss", as line
\* 311 finds them in the locals.
Interruptible(if, movss) == if /\ ~movss

\* The queue after the call and the log of the call.  if and movss are the
\* bits the two fields hold; beyond is what the store of line 304 overwrote
\* beyond InterruptibilityState: when it is GuestRflags, the flag tests 0;
\* when it is the frame, the handler does its work and the return fails.
IdtEmulationHandleExternalInterrupt(q, d, onContinue, onContinueMtf, if, movss, exitErr, beyond) ==
    LET enq == IdtEmulationInjectInterruptWhenInterruptWindowIsOpen(q, d)
        enqCall == Call("IdtEmulationInjectInterruptWhenInterruptWindowIsOpen", B2N(enq.found))
    IN  IF SuppressedOnContinue(onContinue, onContinueMtf)
        THEN [queue |-> enq.queue, calls |-> enqCall \o HvSuppressRipIncrement]
        ELSE IF IsExternalInterrupt(d)
        THEN LET reads == Call("vmread VMCS_GUEST_RFLAGS", B2N(if))
                          \o Call("vmread VMCS_GUEST_INTERRUPTIBILITY_STATE", B2N(movss))
             IN  IF Interruptible(if /\ beyond # "GuestRflags", movss)
                 THEN [queue |-> q,
                       calls |-> reads \o EventInjectInterruptOrException(d, exitErr)
                                 \o HvSuppressRipIncrement \o ReturnAfterStore(beyond)]
                 ELSE [queue |-> enq.queue,
                       calls |-> reads \o enqCall \o HvSetInterruptWindowExiting(TRUE)
                                 \o HvSuppressRipIncrement \o ReturnAfterStore(beyond)]
        ELSE [queue |-> q, calls |-> Call("LogError", 0)]

(***************************************************************************)
(* IdtEmulationHandleNmiWindowExiting: diagnostic only.                    *)
(***************************************************************************)

IdtEmulationHandleNmiWindowExiting == Call("LogError", 0)

(***************************************************************************)
(* IdtEmulationHandleInterruptWindowExiting: the drain.                    *)
(***************************************************************************)

\* The loop of the drain scanning from the last slot down.
FirstPendingSlot_FromLast(q, i) ==
    IF \A j \in i..(PENDING_INTERRUPTS_BUFFER_CAPACITY - 1) : q[j] = NULL
    THEN PENDING_INTERRUPTS_BUFFER_CAPACITY
    ELSE CHOOSE j \in i..(PENDING_INTERRUPTS_BUFFER_CAPACITY - 1) :
             /\ q[j] # NULL
             /\ \A k \in (j + 1)..(PENDING_INTERRUPTS_BUFFER_CAPACITY - 1) : q[k] = NULL

\* The loop of the drain: the first index whose slot is not NULL, the
\* capacity when there is none.
RECURSIVE FirstPendingSlot(_, _)
FirstPendingSlot(q, i) ==
    IF i >= PENDING_INTERRUPTS_BUFFER_CAPACITY THEN PENDING_INTERRUPTS_BUFFER_CAPACITY
    ELSE IF q[i] # NULL THEN i
    ELSE FirstPendingSlot(q, i + 1)

\* The drain whose loop has no break: every pending slot is cleared and
\* the last one read is the one injected.
HandleInterruptWindowExiting_NoBreak(q, exitErr, beyond) ==
    LET i == FirstPendingSlot_FromLast(q, 0)
        taken == IF i < PENDING_INTERRUPTS_BUFFER_CAPACITY THEN q[i] ELSE 0
        after == [j \in DOMAIN q |-> NULL]
    IN  [queue |-> after,
         taken |-> taken,
         calls |-> (IF taken = 0
                    THEN HvSetInterruptWindowExiting(FALSE)
                    ELSE VmwriteEntryInterruptionInfo(taken)
                         \o (IF ErrorCodeValid(taken)
                             THEN VmreadExitErrorCode(exitErr) \o VmwriteEntryErrorCode(exitErr)
                             ELSE << >>))
                   \o HvSuppressRipIncrement
                   \o (IF taken # 0 /\ ErrorCodeValid(taken) THEN ReturnAfterStore(beyond) ELSE << >>)]

\* The drain disarming the control as soon as it has emptied the queue.
HandleInterruptWindowExiting_DisarmsWhenEmptied(q, exitErr, beyond) ==
    LET i == FirstPendingSlot(q, 0)
        taken == IF i < PENDING_INTERRUPTS_BUFFER_CAPACITY THEN q[i] ELSE 0
        after == IF i < PENDING_INTERRUPTS_BUFFER_CAPACITY THEN [q EXCEPT ![i] = NULL] ELSE q
    IN  [queue |-> after,
         taken |-> taken,
         calls |-> (IF taken = 0
                    THEN HvSetInterruptWindowExiting(FALSE)
                    ELSE VmwriteEntryInterruptionInfo(taken)
                         \o (IF ErrorCodeValid(taken)
                             THEN VmreadExitErrorCode(exitErr) \o VmwriteEntryErrorCode(exitErr)
                             ELSE << >>)
                         \o (IF \A j \in DOMAIN after : after[j] = NULL
                             THEN HvSetInterruptWindowExiting(FALSE)
                             ELSE << >>))
                   \o HvSuppressRipIncrement
                   \o (IF taken # 0 /\ ErrorCodeValid(taken) THEN ReturnAfterStore(beyond) ELSE << >>)]

\* The drain without the test of AsUInt against 0: it injects what it
\* holds, a descriptor or the 0 it started with.
HandleInterruptWindowExiting_AlwaysInjects(q, exitErr, beyond) ==
    LET i == FirstPendingSlot(q, 0)
        taken == IF i < PENDING_INTERRUPTS_BUFFER_CAPACITY THEN q[i] ELSE 0
        after == IF i < PENDING_INTERRUPTS_BUFFER_CAPACITY THEN [q EXCEPT ![i] = NULL] ELSE q
    IN  [queue |-> after,
         taken |-> taken,
         calls |-> VmwriteEntryInterruptionInfo(taken)
                   \o (IF ErrorCodeValid(taken)
                       THEN VmreadExitErrorCode(exitErr) \o VmwriteEntryErrorCode(exitErr)
                       ELSE << >>)
                   \o HvSuppressRipIncrement
                   \o (IF taken # 0 /\ ErrorCodeValid(taken) THEN ReturnAfterStore(beyond) ELSE << >>)]

\* The drain returning right after it disarms the control.
HandleInterruptWindowExiting_ReturnsAfterDisarm(q, exitErr, beyond) ==
    LET i == FirstPendingSlot(q, 0)
        taken == IF i < PENDING_INTERRUPTS_BUFFER_CAPACITY THEN q[i] ELSE 0
        after == IF i < PENDING_INTERRUPTS_BUFFER_CAPACITY THEN [q EXCEPT ![i] = NULL] ELSE q
    IN  [queue |-> after,
         taken |-> taken,
         calls |-> IF taken = 0
                   THEN HvSetInterruptWindowExiting(FALSE)
                   ELSE VmwriteEntryInterruptionInfo(taken)
                        \o (IF ErrorCodeValid(taken)
                            THEN VmreadExitErrorCode(exitErr) \o VmwriteEntryErrorCode(exitErr)
                            ELSE << >>)
                        \o HvSuppressRipIncrement
                   \o (IF taken # 0 /\ ErrorCodeValid(taken) THEN ReturnAfterStore(beyond) ELSE << >>)]

\* The queue after the call, the descriptor taken (InterruptExit.AsUInt, 0
\* when no slot held one) and the log of the call.  beyond is what the
\* store of line 418, made for a descriptor with an error code, overwrote
\* beyond ErrorCode.
IdtEmulationHandleInterruptWindowExiting(q, exitErr, beyond) ==
    LET i == FirstPendingSlot(q, 0)
        taken == IF i < PENDING_INTERRUPTS_BUFFER_CAPACITY THEN q[i] ELSE 0
        after == IF i < PENDING_INTERRUPTS_BUFFER_CAPACITY THEN [q EXCEPT ![i] = NULL] ELSE q
    IN  [queue |-> after,
         taken |-> taken,
         calls |-> (IF taken = 0
                    THEN HvSetInterruptWindowExiting(FALSE)
                    ELSE VmwriteEntryInterruptionInfo(taken)
                         \o (IF ErrorCodeValid(taken)
                             THEN VmreadExitErrorCode(exitErr) \o VmwriteEntryErrorCode(exitErr)
                             ELSE << >>))
                   \o HvSuppressRipIncrement
                   \o (IF taken # 0 /\ ErrorCodeValid(taken) THEN ReturnAfterStore(beyond) ELSE << >>)]

(***************************************************************************)
(* The state of one core.                                                  *)
(***************************************************************************)

VARIABLES
    PendingExternalInterrupts,              \* VCpu->PendingExternalInterrupts[]
    EnableExternalInterruptsOnContinue,     \* VCpu flag
    EnableExternalInterruptsOnContinueMtf,  \* VCpu flag
    RegisterBreakOnMtf,                     \* VCpu flag
    IncrementRip,                \* VCpu->IncrementRip as the last call left it
    InterruptWindowExiting,      \* the interrupt-window exiting control is armed
    Cr2,                         \* the guest's CR2
    op,                          \* the last call made on the core
    arg,                         \* the descriptor it was given (0: none)
    ret,                         \* what the enqueue returned, when called directly
    calls,                       \* what the last call asked of its collaborators
    history                      \* the calls of the scripted scenario, so far

vars == <<PendingExternalInterrupts, EnableExternalInterruptsOnContinue,
          EnableExternalInterruptsOnContinueMtf, RegisterBreakOnMtf, IncrementRip,
          InterruptWindowExiting, Cr2, op, arg, ret, calls, history>>

flags == <<EnableExternalInterruptsOnContinue, EnableExternalInterruptsOnContinueMtf,
           RegisterBreakOnMtf>>

Slots == 0..(PENDING_INTERRUPTS_BUFFER_CAPACITY - 1)

EmptyQueue == [i \in Slots |-> NULL]

\* The core after construction: nothing pending, no flag set, nothing armed.
Init ==
    /\ PendingExternalInterrupts = EmptyQueue
    /\ EnableExternalInterruptsOnContinue = FALSE
    /\ EnableExternalInterruptsOnContinueMtf = FALSE
    /\ RegisterBreakOnMtf = FALSE
    /\ IncrementRip = TRUE
    /\ InterruptWindowExiting = FALSE
    /\ Cr2 = 0
    /\ op = "Init"
    /\ arg = 0
    /\ ret = FALSE
    /\ calls = << >>
    /\ history = << >>

\* What a handler's log does to the core: the exit dispatcher hands every
\* handler a state whose IncrementRip is TRUE, HvSuppressRipIncrement clears
\* it; HvSetInterruptWindowExiting arms or disarms the control; writecr2
\* sets CR2.
Effects(log) ==
    /\ calls' = log
    /\ IncrementRip' = (Count(log, "HvSuppressRipIncrement") = 0)
    /\ InterruptWindowExiting' =
           (LastValue(log, "HvSetInterruptWindowExiting", B2N(InterruptWindowExiting)) = 1)
    /\ Cr2' = LastValue(log, "writecr2", Cr2)

\* A vmread overwrote the frame of the last call: the core runs no further.
Crashed == Count(calls, "return through the overwritten frame") > 0

\* What the stores of lines 150 and 35 may overwrite: they run for a #PF only.
BeyondFor(d) ==
    IF Vector(d) = EXCEPTION_VECTOR_PAGE_FAULT
    THEN [dispatcher : BeyondPageFaultCode, reinjector : BeyondPageFaultCode]
    ELSE {[dispatcher |-> "spare", reinjector |-> "spare"]}

\* The exit's error code field is read only for a descriptor whose
\* error-code-valid bit is set, the exit qualification only for a #PF.
ErrorCodesFor(d) == IF ErrorCodeValid(d) THEN ExitErrorCodes ELSE {0}

QualificationsFor(d) == IF Vector(d) = EXCEPTION_VECTOR_PAGE_FAULT THEN Addresses ELSE {0}

\* The vectors whose case asks a collaborator, and the one that asks two.
AsksCollaborator(d) ==
    Vector(d) \in {EXCEPTION_VECTOR_BREAKPOINT, EXCEPTION_VECTOR_UNDEFINED_OPCODE,
                   EXCEPTION_VECTOR_PAGE_FAULT, EXCEPTION_VECTOR_DEBUG_BREAKPOINT}

FirstAnswersFor(d) == IF AsksCollaborator(d) THEN BOOLEAN ELSE {FALSE}

SecondAnswersFor(d) == IF Vector(d) = EXCEPTION_VECTOR_BREAKPOINT THEN BOOLEAN ELSE {FALSE}

\* A VM-exit for an exception or an NMI.  A call asks at most two
\* collaborators: first is the answer of the one asked first (the EPT probe,
\* the #UD probe, the page-fault callback, the debug callback), second that
\* of the breakpoint callback.
VmexitExceptionOrNmi ==
    \E d \in ExceptionDescriptors :
    \E exitErr \in ErrorCodesFor(d), qual \in QualificationsFor(d),
       first \in FirstAnswersFor(d), second \in SecondAnswersFor(d),
       beyond \in BeyondFor(d) :
        /\ ~Crashed
        /\ Effects(IdtEmulationHandleExceptionAndNmi(
                       d, EnableExternalInterruptsOnContinue,
                       EnableExternalInterruptsOnContinueMtf, RegisterBreakOnMtf,
                       [ept |-> first, bp |-> second, ud |-> first, pf |-> first,
                        db |-> first],
                       exitErr, qual, Cr2, beyond))
        /\ op' = "IdtEmulationHandleExceptionAndNmi"
        /\ arg' = d
        /\ ret' = FALSE
        /\ UNCHANGED <<PendingExternalInterrupts, flags, history>>

\* The handler reads the guest's RFLAGS and interruptibility state (lines
\* 303-304) only in its second branch.
ReadsGuestState(d) ==
    /\ ~EnableExternalInterruptsOnContinue
    /\ ~EnableExternalInterruptsOnContinueMtf
    /\ Valid(d)
    /\ InterruptionType(d) = INTERRUPT_TYPE_EXTERNAL_INTERRUPT

GuestBitsFor(d) == IF ReadsGuestState(d) THEN BOOLEAN ELSE {FALSE}

BeyondInterruptibilityStateFor(d) ==
    IF ReadsGuestState(d) THEN BeyondInterruptibilityState ELSE {"spare"}

\* A VM-exit for an external interrupt.
VmexitExternalInterrupt ==
    \E d \in ExternalDescriptors :
    \E if \in GuestBitsFor(d), movss \in GuestBitsFor(d),
       beyond \in BeyondInterruptibilityStateFor(d),
       exitErr \in (IF ReadsGuestState(d) THEN ErrorCodesFor(d) ELSE {0}) :
        LET r == IdtEmulationHandleExternalInterrupt(
                     PendingExternalInterrupts, d, EnableExternalInterruptsOnContinue,
                     EnableExternalInterruptsOnContinueMtf, if, movss, exitErr, beyond)
        IN  /\ ~Crashed
            /\ Effects(r.calls)
            /\ PendingExternalInterrupts' = r.queue
            /\ op' = "IdtEmulationHandleExternalInterrupt"
            /\ arg' = d
            /\ ret' = FALSE
            /\ UNCHANGED <<flags, history>>

\* The window exit holding the queue back while a continuation flag is
\* set: it delivers nothing then and only suppresses the advance.
Drain_HoldsWhileSuppressed(exitErr, beyond) ==
    LET r == IdtEmulationHandleInterruptWindowExiting(PendingExternalInterrupts, exitErr, beyond)
        held == EnableExternalInterruptsOnContinue \/ EnableExternalInterruptsOnContinueMtf
    IN  /\ ~Crashed
        /\ Effects(IF held THEN HvSuppressRipIncrement ELSE r.calls)
        /\ PendingExternalInterrupts' = (IF held THEN PendingExternalInterrupts ELSE r.queue)
        /\ op' = "IdtEmulationHandleInterruptWindowExiting"
        /\ arg' = 0
        /\ ret' = FALSE
        /\ UNCHANGED flags

\* One call of the drain.
Drain(exitErr, beyond) ==
    LET r == IdtEmulationHandleInterruptWindowExiting(PendingExternalInterrupts, exitErr, beyond)
    IN  /\ ~Crashed
        /\ Effects(r.calls)
        /\ PendingExternalInterrupts' = r.queue
        /\ op' = "IdtEmulationHandleInterruptWindowExiting"
        /\ arg' = 0
        /\ ret' = FALSE
        /\ UNCHANGED flags

\* A VM-exit for the interrupt window: the processor raises it only while
\* the interrupt-window exiting control is armed.
VmexitInterruptWindow ==
    /\ InterruptWindowExiting
    /\ \E exitErr \in ExitErrorCodes, beyond \in BeyondErrorCode : Drain(exitErr, beyond)
    /\ UNCHANGED history

\* A VM-exit for the NMI window.
VmexitNmiWindow ==
    /\ ~Crashed
    /\ Effects(IdtEmulationHandleNmiWindowExiting)
    /\ op' = "IdtEmulationHandleNmiWindowExiting"
    /\ arg' = 0
    /\ ret' = FALSE
    /\ UNCHANGED <<PendingExternalInterrupts, flags, history>>

\* The debugger's control path sets and clears the three flags between exits.
DebuggerControl ==
    \E c \in BOOLEAN, m \in BOOLEAN, b \in BOOLEAN :
        /\ ~Crashed
        /\ EnableExternalInterruptsOnContinue' = c
        /\ EnableExternalInterruptsOnContinueMtf' = m
        /\ RegisterBreakOnMtf' = b
        /\ op' = "DebuggerControl"
        /\ arg' = 0
        /\ ret' = FALSE
        /\ calls' = << >>
        /\ UNCHANGED <<PendingExternalInterrupts, IncrementRip, InterruptWindowExiting,
                       Cr2, history>>

Next ==
    \/ VmexitExceptionOrNmi
    \/ VmexitExternalInterrupt
    \/ VmexitInterruptWindow
    \/ VmexitNmiWindow
    \/ DebuggerControl

Spec == Init /\ [][Next]_vars

(***************************************************************************)
(* The queue on its own: the enqueue and the drain called directly, in any *)
(* order, on the core after construction.                                  *)
(***************************************************************************)

\* One direct call of the enqueue.
Enqueue(d) ==
    LET r == IdtEmulationInjectInterruptWhenInterruptWindowIsOpen(PendingExternalInterrupts, d)
    IN  /\ ~Crashed
        /\ PendingExternalInterrupts' = r.queue
        /\ ret' = r.found
        /\ op' = "IdtEmulationInjectInterruptWhenInterruptWindowIsOpen"
        /\ arg' = d
        /\ calls' = << >>
        /\ UNCHANGED <<flags, IncrementRip, InterruptWindowExiting, Cr2>>

EnqueueCall ==
    /\ \E d \in QueueDescriptors : Enqueue(d)
    /\ UNCHANGED history

DrainCall ==
    /\ \E exitErr \in ExitErrorCodes, beyond \in BeyondErrorCode : Drain(exitErr, beyond)
    /\ UNCHANGED history

QueueNext ==
    \/ EnqueueCall
    \/ DrainCall

QueueSpec == Init /\ [][QueueNext]_vars

\* The same, with drain calls that keep occurring.
FairQueueSpec == QueueSpec /\ WF_vars(DrainCall)

(***************************************************************************)
(* The scripted scenario: enqueue A, enqueue B, enqueue C, drain,          *)
(* enqueue C, drain, drain, drain, from the empty queue, for every choice  *)
(* of distinct non-zero descriptors A, B, C.  history[k] is the k-th call: *)
(* for an enqueue, out is 1 (TRUE) or 0 (FALSE); for a drain, out is the   *)
(* descriptor written to the entry-injection field, 0 when none was.       *)
(***************************************************************************)

ScenarioScript ==
    <<"enqueue", "enqueue", "enqueue", "drain", "enqueue", "drain", "drain", "drain">>

ScenarioLength == Len(ScenarioScript)

ScenarioEnqueueSteps == {k \in 1..ScenarioLength : ScenarioScript[k] = "enqueue"}

ScenarioArgs == {history[k].arg : k \in 1..Len(history)}

ScenarioEnqueue ==
    /\ Len(history) + 1 \in ScenarioEnqueueSteps
    /\ \E d \in QueueDescriptors \ {NULL} :
        /\ IF Len(history) < 3 THEN d \notin ScenarioArgs ELSE d = history[3].arg
        /\ Enqueue(d)
        /\ history' = Append(history, [op |-> "enqueue", arg |-> d, out |-> B2N(ret')])

ScenarioDrain ==
    /\ Len(history) + 1 \in (1..ScenarioLength) \ ScenarioEnqueueSteps
    /\ \E exitErr \in ExitErrorCodes, beyond \in BeyondErrorCode :
        /\ Drain(exitErr, beyond)
        /\ history' = Append(history,
               [op |-> "drain", arg |-> 0,
                out |-> LastValue(calls',
                            "vmwrite VMCS_CTRL_VMENTRY_INTERRUPTION_INFORMATION_FIELD", 0)])

ScenarioNext ==
    \/ ScenarioEnqueue
    \/ ScenarioDrain

ScenarioSpec == Init /\ [][ScenarioNext]_vars

(***************************************************************************)
(* C1.  Every descriptor the enqueue accepted is later returned by a drain *)
(* call, when drain calls keep occurring and no enqueue is attempted on a  *)
(* full queue; and a drain call that returns a descriptor takes exactly    *)
(* one instance of it out of the queue.                                    *)
(***************************************************************************)

Returned(d) ==
    /\ op = "IdtEmulationHandleInterruptWindowExiting"
    /\ InjectionWrites(calls) # {}
    /\ LastValue(calls, "vmwrite VMCS_CTRL_VMENTRY_INTERRUPTION_INFORMATION_FIELD", 0) = d

Accepted(d) ==
    /\ op = "IdtEmulationInjectInterruptWhenInterruptWindowIsOpen"
    /\ arg = d
    /\ ret

\* No enqueue has been attempted on a full queue.
NoOverflowAttempt ==
    op = "IdtEmulationInjectInterruptWhenInterruptWindowIsOpen" => ret

\* C1: in a run of enqueue and drain calls in which no enqueue is attempted
\* on a full queue and drain calls keep occurring, each descriptor accepted
\* by the enqueue is eventually returned by a drain call.
C1_EveryEnqueuedIsReturned ==
    []NoOverflowAttempt => \A d \in QueueDescriptors : Accepted(d) ~> Returned(d)

(***************************************************************************)
(* C2.  The scenario of capacity 2.                                        *)
(***************************************************************************)

\* What the scenario is said to yield at step k, A, B, C being the
\* descriptors of the first three calls.
ScenarioExpected(k) ==
    CASE k \in {1, 2, 5} -> 1
      [] k = 3 -> 0
      [] k = 4 -> history[1].arg
      [] k = 6 -> history[2].arg
      [] k = 7 -> history[3].arg
      [] OTHER -> 0

\* C2: with capacity 2, the calls yield success, success, failure, A,
\* success, B, C, and the last drain injects nothing and disarms the
\* interrupt-window notification.
C2_Scenario ==
    PENDING_INTERRUPTS_BUFFER_CAPACITY = 2 =>
        /\ \A k \in 1..Len(history) : history[k].out = ScenarioExpected(k)
        /\ Len(history) = ScenarioLength =>
               /\ InjectionWrites(calls) = {}
               /\ CountWith(calls, "HvSetInterruptWindowExiting", 0) = 1
               /\ ~InterruptWindowExiting

(***************************************************************************)
(* C3.  Suppression and delivery.                                          *)
(***************************************************************************)

\* The last call was one of the core's two interrupt entry points.
InterruptEntryPoint ==
    op \in {"IdtEmulationHandleExternalInterrupt", "IdtEmulationHandleInterruptWindowExiting"}

\* C3: while EnableExternalInterruptsOnContinue or
\* EnableExternalInterruptsOnContinueMtf is set, no entry point writes an
\* external-interrupt descriptor to the entry-injection field.  (The flags
\* are those the call ran under: no handler changes them.)
C3_NoDeliveryWhileSuppressed ==
    (InterruptEntryPoint
     /\ (EnableExternalInterruptsOnContinue \/ EnableExternalInterruptsOnContinueMtf))
    => \A k \in InjectionWrites(calls) :
           ~(Valid(calls[k][2])
             /\ InterruptionType(calls[k][2]) = INTERRUPT_TYPE_EXTERNAL_INTERRUPT)

(***************************************************************************)
(* C4.  The enqueue on a full queue.                                       *)
(***************************************************************************)

QueueFull == \A i \in Slots : PendingExternalInterrupts[i] # NULL

\* C4: an enqueue call made when every slot holds a descriptor returns
\* FALSE and leaves every slot as it was.
C4_EnqueueOnFullQueueFails ==
    [][(op' = "IdtEmulationInjectInterruptWhenInterruptWindowIsOpen" /\ QueueFull)
       => (~ret' /\ PendingExternalInterrupts' = PendingExternalInterrupts)]_vars

\* An enqueue call has just failed on a full queue.
C4_Witness ==
    /\ op = "IdtEmulationInjectInterruptWhenInterruptWindowIsOpen"
    /\ ~ret
    /\ QueueFull
    /\ arg \notin {PendingExternalInterrupts[i] : i \in Slots}

(***************************************************************************)
(* C5.  The drain on an empty queue.                                       *)
(***************************************************************************)

\* C5: a drain call on a queue whose slots are all empty calls
\* HvSetInterruptWindowExiting(FALSE) exactly once (and never with TRUE),
\* writes neither entry field, leaves the queue empty and suppresses the
\* instruction-pointer advance.
C5_DrainOfEmptyQueue ==
    [][(op' = "IdtEmulationHandleInterruptWindowExiting"
        /\ PendingExternalInterrupts = EmptyQueue)
       => /\ CountWith(calls', "HvSetInterruptWindowExiting", 0) = 1
          /\ Count(calls', "HvSetInterruptWindowExiting") = 1
          /\ InjectionWrites(calls') = {}
          /\ ErrorCodeWrites(calls') = {}
          /\ PendingExternalInterrupts' = EmptyQueue
          /\ ~InterruptWindowExiting'
          /\ Count(calls', "HvSuppressRipIncrement") >= 1
          /\ ~IncrementRip']_vars

\* A window exit has just found the queue empty and disarmed the control.
C5_Witness ==
    /\ op = "IdtEmulationHandleInterruptWindowExiting"
    /\ PendingExternalInterrupts = EmptyQueue
    /\ CountWith(calls, "HvSetInterruptWindowExiting", 0) = 1
    /\ ~InterruptWindowExiting
    /\ ~IncrementRip

(***************************************************************************)
(* C6, C7, C8.  The external-interrupt dispatcher.                         *)
(***************************************************************************)

\* The last call was the external-interrupt handler, run with neither
\* continuation flag set, on a valid descriptor of the external-interrupt type.
ExternalUnsuppressed ==
    /\ op = "IdtEmulationHandleExternalInterrupt"
    /\ ~EnableExternalInterruptsOnContinue
    /\ ~EnableExternalInterruptsOnContinueMtf
    /\ Valid(arg)
    /\ InterruptionType(arg) = INTERRUPT_TYPE_EXTERNAL_INTERRUPT

\* What that call read of the guest: RFLAGS.IF and blocking by "mov ss".
ReadIF == LastValue(calls, "vmread VMCS_GUEST_RFLAGS", 0) = 1

ReadMovSs == LastValue(calls, "vmread VMCS_GUEST_INTERRUPTIBILITY_STATE", 0) = 1

\* C6: a valid external interrupt that arrives with no continuation flag
\* set while the guest is interruptible is written to the entry-injection
\* field in that call, once; no slot changes, HvSetInterruptWindowExiting
\* is not called, and the instruction-pointer advance is suppressed.
C6_InterruptibleIsForwarded ==
    [][(ExternalUnsuppressed' /\ ReadIF' /\ ~ReadMovSs')
       => /\ Cardinality(InjectionWrites(calls')) = 1
          /\ \A k \in InjectionWrites(calls') : calls'[k][2] = arg'
          /\ PendingExternalInterrupts' = PendingExternalInterrupts
          /\ Count(calls', "HvSetInterruptWindowExiting") = 0
          /\ InterruptWindowExiting' = InterruptWindowExiting
          /\ ~IncrementRip']_vars

\* C7: a valid external interrupt that arrives with no continuation flag
\* set while the guest is not interruptible is held in a queue slot after
\* the call, HvSetInterruptWindowExiting(TRUE) has been called exactly once,
\* and the entry-injection field has not been written.
C7_NotInterruptibleIsQueued ==
    (ExternalUnsuppressed /\ (~ReadIF \/ ReadMovSs))
    => /\ \E i \in Slots : PendingExternalInterrupts[i] = arg
       /\ CountWith(calls, "HvSetInterruptWindowExiting", 1) = 1
       /\ Count(calls, "HvSetInterruptWindowExiting") = 1
       /\ InjectionWrites(calls) = {}

\* C8: when the external-interrupt handler runs with a continuation flag
\* set, it enqueues the descriptor, whatever the descriptor's valid bit
\* and type: the enqueue is called once and, after the call, a slot that
\* was empty holds the raw form, nothing else changing; it reads neither
\* RFLAGS nor the interruptibility state, does not write the
\* entry-injection field, and suppresses the instruction-pointer advance.
C8_SuppressedIsEnqueued ==
    [][(op' = "IdtEmulationHandleExternalInterrupt"
        /\ (EnableExternalInterruptsOnContinue \/ EnableExternalInterruptsOnContinueMtf))
       => /\ Count(calls', "IdtEmulationInjectInterruptWhenInterruptWindowIsOpen") = 1
          /\ \E i \in Slots :
                 /\ PendingExternalInterrupts[i] = NULL
                 /\ PendingExternalInterrupts' =
                        [PendingExternalInterrupts EXCEPT ![i] = arg']
          /\ Count(calls', "vmread VMCS_GUEST_RFLAGS") = 0
          /\ Count(calls', "vmread VMCS_GUEST_INTERRUPTIBILITY_STATE") = 0
          /\ InjectionWrites(calls') = {}
          /\ ~IncrementRip']_vars

(***************************************************************************)
(* C9, C10.  The exception/NMI dispatcher.                                 *)
(***************************************************************************)

\* C9: one call of the exception/NMI handler ends debugger-consumed (no
\* entry field written, nothing forwarded) or guest-forwarded (exactly one
\* event written to the entry-injection field, and the instruction-pointer
\* advance suppressed).
C9_ConsumedOrForwarded ==
    op = "IdtEmulationHandleExceptionAndNmi"
    => \/ (InjectionWrites(calls) = {} /\ ErrorCodeWrites(calls) = {})
       \/ (Cardinality(InjectionWrites(calls)) = 1 /\ ~IncrementRip)

\* The answers the breakpoint case got, as the log has them.
EptHandled == CountWith(calls, "EptCheckAndHandleBreakpoint", 1) = 1

DebuggerHandled == CountWith(calls, "DebuggingCallbackHandleBreakpointException", 1) = 1

\* C10: on a breakpoint exit the EPT probe is asked first and once; when it
\* handles the breakpoint the debugger callback is not asked and nothing is
\* injected; when it declines, the debugger callback is asked next, once,
\* and nothing is injected if that handles it; a synthetic breakpoint is
\* written to the entry-injection field, with the instruction-pointer
\* advance suppressed, exactly when both decline.
C10_BreakpointOrder ==
    (op = "IdtEmulationHandleExceptionAndNmi" /\ Vector(arg) = EXCEPTION_VECTOR_BREAKPOINT)
    => /\ Len(calls) >= 1
       /\ calls[1][1] = "EptCheckAndHandleBreakpoint"
       /\ Count(calls, "EptCheckAndHandleBreakpoint") = 1
       /\ EptHandled =>
              /\ Count(calls, "DebuggingCallbackHandleBreakpointException") = 0
              /\ InjectionWrites(calls) = {}
       /\ ~EptHandled =>
              /\ Count(calls, "DebuggingCallbackHandleBreakpointException") = 1
              /\ calls[2][1] = "DebuggingCallbackHandleBreakpointException"
              /\ DebuggerHandled => InjectionWrites(calls) = {}
       /\ (InjectionWrites(calls) # {}) <=> (~EptHandled /\ ~DebuggerHandled)
       /\ (~EptHandled /\ ~DebuggerHandled) =>
              /\ Cardinality(InjectionWrites(calls)) = 1
              /\ \A k \in InjectionWrites(calls) : calls[k][2] = HwBP
              /\ ~IncrementRip

\* Both have just declined a breakpoint, which was forwarded.
C10_Witness ==
    /\ op = "IdtEmulationHandleExceptionAndNmi"
    /\ Vector(arg) = EXCEPTION_VECTOR_BREAKPOINT
    /\ CountWith(calls, "EptCheckAndHandleBreakpoint", 0) = 1
    /\ CountWith(calls, "DebuggingCallbackHandleBreakpointException", 0) = 1
    /\ InjectionWrites(calls) # {}

(***************************************************************************)
(* The page-fault re-injector called directly, as the rest of the          *)
(* hypervisor calls it, next to the exception exits that reach it with     *)
(* NULL.  The caller either has a fault address of its own, whatever its   *)
(* value, or has none and passes NULL.  history holds the one call: op is  *)
(* "explicit" or "sentinel", arg the address the caller has (0 when it has *)
(* none), out the error code it gives.                                     *)
(***************************************************************************)

\* A #PF descriptor whose error-code-valid bit is clear.
HwPFNoCode == MakeInterruption(INTERRUPT_TYPE_HARDWARE_EXCEPTION, EXCEPTION_VECTOR_PAGE_FAULT, FALSE, TRUE)

\* Fault addresses a caller may have.
CallerAddresses == {0, 4096, 8192}

PageFaultCall ==
    \E d \in {HwPF, HwPFNoCode}, explicit \in BOOLEAN, errorCode \in ExitErrorCodes,
       exitErr \in ExitErrorCodes, qual \in Addresses, beyond \in BeyondPageFaultCode :
    \E a \in (IF explicit THEN CallerAddresses ELSE {NULL}) :
        /\ ~Crashed
        /\ Effects(IdtEmulationHandlePageFaults(d, a, errorCode, exitErr, qual, beyond))
        /\ op' = "IdtEmulationHandlePageFaults"
        /\ arg' = d
        /\ ret' = FALSE
        /\ history' = << [op |-> IF explicit THEN "explicit" ELSE "sentinel",
                          arg |-> a, out |-> errorCode] >>
        /\ UNCHANGED <<PendingExternalInterrupts, flags>>

PageFaultExit ==
    /\ VmexitExceptionOrNmi
    /\ Vector(arg') = EXCEPTION_VECTOR_PAGE_FAULT

PageFaultNext ==
    \/ PageFaultCall
    \/ PageFaultExit

PageFaultSpec == Init /\ [][PageFaultNext]_vars

(***************************************************************************)
(* C11.  Page-fault re-injection.                                          *)
(***************************************************************************)

\* C11: called with an explicit fault address A the re-injector sets CR2 to
\* A, whatever A; called with the sentinel it sets CR2 to the value read
\* from the exit qualification field; in both cases it suppresses the
\* instruction-pointer advance, writes the descriptor to the
\* entry-injection field, and writes the given error code to the entry
\* error-code field exactly when the error-code-valid bit is set.
C11_PageFaultReinjection ==
    (op = "IdtEmulationHandlePageFaults" /\ Len(history) = 1)
    => /\ history[1].op = "explicit" => Cr2 = history[1].arg
       /\ history[1].op = "sentinel" =>
              /\ Count(calls, "vmread VMCS_EXIT_QUALIFICATION") = 1
              /\ Cr2 = LastValue(calls, "vmread VMCS_EXIT_QUALIFICATION", 0)
       /\ ~IncrementRip
       /\ Cardinality(InjectionWrites(calls)) = 1
       /\ \A k \in InjectionWrites(calls) : calls[k][2] = arg
       /\ (ErrorCodeWrites(calls) # {}) <=> ((arg \div 2048) % 2 = 1)
       /\ \A k \in ErrorCodeWrites(calls) : calls[k][2] = history[1].out

(***************************************************************************)
(* C12.  The NMI exit.                                                     *)
(***************************************************************************)

\* C12: an exit with the NMI vector, taken while any of the three flags is
\* set, injects nothing, enqueues nothing and changes nothing else; taken
\* while none is set it forwards the original descriptor unchanged; in
\* neither case does the queue change.
C12_NmiIgnoredOrForwarded ==
    [][(op' = "IdtEmulationHandleExceptionAndNmi" /\ arg' % 256 = EXCEPTION_VECTOR_NMI)
       => /\ PendingExternalInterrupts' = PendingExternalInterrupts
          /\ IF \/ EnableExternalInterruptsOnContinue
                \/ EnableExternalInterruptsOnContinueMtf
                \/ RegisterBreakOnMtf
             THEN /\ calls' = << >>
                  /\ Cr2' = Cr2
                  /\ InterruptWindowExiting' = InterruptWindowExiting
                  /\ flags' = flags
             ELSE /\ Cardinality(InjectionWrites(calls')) = 1
                  /\ \A k \in InjectionWrites(calls') : calls'[k][2] = arg'
                  /\ Count(calls', "IdtEmulationInjectInterruptWhenInterruptWindowIsOpen") = 0
      ]_vars

\* An NMI was ignored with RegisterBreakOnMtf the only flag set.
C12_Witness ==
    /\ op = "IdtEmulationHandleExceptionAndNmi"
    /\ arg = HwNMI
    /\ RegisterBreakOnMtf
    /\ ~EnableExternalInterruptsOnContinue
    /\ ~EnableExternalInterruptsOnContinueMtf
    /\ calls = << >>
    /\ PendingExternalInterrupts # EmptyQueue

(***************************************************************************)
(* C13.  The external-interrupt dispatcher given a malformed descriptor.   *)
(***************************************************************************)

\* C13: called with no continuation-suppression flag set and a descriptor
\* whose valid bit is clear or whose type is not external-interrupt, the
\* dispatcher reports one diagnostic error, writes neither entry field,
\* leaves the queue as it was and does not call the window control.
C13_MalformedIsReported ==
    [][(/\ op' = "IdtEmulationHandleExternalInterrupt"
        /\ ~EnableExternalInterruptsOnContinue
        /\ ~EnableExternalInterruptsOnContinueMtf
        /\ (arg' >= 0 \/ (arg' \div 256) % 8 # INTERRUPT_TYPE_EXTERNAL_INTERRUPT))
       => /\ Count(calls', "LogError") = 1
          /\ InjectionWrites(calls') = {}
          /\ ErrorCodeWrites(calls') = {}
          /\ PendingExternalInterrupts' = PendingExternalInterrupts
          /\ Count(calls', "IdtEmulationInjectInterruptWhenInterruptWindowIsOpen") = 0
          /\ Count(calls', "HvSetInterruptWindowExiting") = 0
          /\ InterruptWindowExiting' = InterruptWindowExiting
      ]_vars

\* The dispatcher reported a descriptor with the valid bit clear while the
\* queue held one interrupt.
C13_Witness ==
    /\ op = "IdtEmulationHandleExternalInterrupt"
    /\ arg = NULL
    /\ ~EnableExternalInterruptsOnContinue
    /\ ~EnableExternalInterruptsOnContinueMtf
    /\ Count(calls, "LogError") = 1
    /\ PendingExternalInterrupts[0] # NULL
    /\ PendingExternalInterrupts[1] = NULL

(***************************************************************************)
(* The two-phase use of the queue: from the empty queue, k <= capacity     *)
(* enqueue calls of distinct non-zero descriptors, then k drain calls and  *)
(* no enqueue in between.  history[j] is the j-th call, as in the          *)
(* scripted scenario.                                                      *)
(***************************************************************************)

PhaseDescriptors == (QueueDescriptors \cup ExceptionDescriptors) \ {NULL}

PhaseEnqueues == {j \in 1..Len(history) : history[j].op = "enqueue"}

PhaseDrains == {j \in 1..Len(history) : history[j].op = "drain"}

PhaseEnqueue ==
    /\ PhaseDrains = {}
    /\ Len(history) < PENDING_INTERRUPTS_BUFFER_CAPACITY
    /\ \E d \in PhaseDescriptors :
        /\ d \notin {history[j].arg : j \in 1..Len(history)}
        /\ Enqueue(d)
        /\ history' = Append(history, [op |-> "enqueue", arg |-> d, out |-> B2N(ret')])

PhaseDrain ==
    /\ Cardinality(PhaseDrains) < Cardinality(PhaseEnqueues)
    /\ \E exitErr \in ExitErrorCodes, beyond \in BeyondErrorCode :
        /\ Drain(exitErr, beyond)
        /\ history' = Append(history,
               [op |-> "drain", arg |-> 0,
                out |-> LastValue(calls',
                            "vmwrite VMCS_CTRL_VMENTRY_INTERRUPTION_INFORMATION_FIELD", 0)])

PhaseNext ==
    \/ PhaseEnqueue
    \/ PhaseDrain

PhaseSpec == Init /\ [][PhaseNext]_vars

(***************************************************************************)
(* C14.  First-in first-out order when the phases are disjoint.            *)
(***************************************************************************)

\* C14: when k distinct non-zero descriptors are enqueued into the empty
\* queue and then drained with no enqueue in between, the i-th drain call
\* returns the i-th descriptor enqueued, for every i up to k.
C14_DisjointPhasesAreFifo ==
    \A i \in 1..Cardinality(PhaseDrains) :
        history[Cardinality(PhaseEnqueues) + i].out = history[i].arg

\* The queue was filled to capacity and drained to the last descriptor.
C14_Witness ==
    /\ Cardinality(PhaseEnqueues) = PENDING_INTERRUPTS_BUFFER_CAPACITY
    /\ Cardinality(PhaseDrains) = PENDING_INTERRUPTS_BUFFER_CAPACITY
    /\ PendingExternalInterrupts = EmptyQueue

(***************************************************************************)
(* C15, C16.  The drain of a non-empty queue and the disarming.            *)
(***************************************************************************)

LowestPendingSlot ==
    CHOOSE i \in Slots :
        /\ PendingExternalInterrupts[i] # NULL
        /\ \A j \in Slots : PendingExternalInterrupts[j] # NULL => i <= j

\* C15: a window exit that finds some slot non-empty takes the value of the
\* lowest-index non-empty slot, empties that slot and no other, writes the
\* value to the entry-injection field exactly once, does not call the
\* window control, and suppresses the instruction-pointer advance.
C15_DrainTakesLowestSlot ==
    [][(op' = "IdtEmulationHandleInterruptWindowExiting"
        /\ PendingExternalInterrupts # EmptyQueue)
       => /\ PendingExternalInterrupts' =
                 [PendingExternalInterrupts EXCEPT ![LowestPendingSlot] = NULL]
          /\ Cardinality(InjectionWrites(calls')) = 1
          /\ \A k \in InjectionWrites(calls') :
                 calls'[k][2] = PendingExternalInterrupts[LowestPendingSlot]
          /\ Count(calls', "HvSetInterruptWindowExiting") = 0
          /\ ~IncrementRip']_vars

\* A window exit has just taken slot 0 and left slot 1 holding its
\* descriptor.
C15_Witness ==
    /\ op = "IdtEmulationHandleInterruptWindowExiting"
    /\ InjectionWrites(calls) # {}
    /\ PendingExternalInterrupts[0] = NULL
    /\ PendingExternalInterrupts[1] # NULL
    /\ ~IncrementRip

\* C16: the control goes from armed to disarmed only in a window exit that
\* found every slot empty; a window exit that takes a descriptor leaves it
\* armed, also when it empties the queue.
C16_DisarmedOnlyByEmptyDrain ==
    [][/\ (InterruptWindowExiting /\ ~InterruptWindowExiting')
          => (op' = "IdtEmulationHandleInterruptWindowExiting"
              /\ PendingExternalInterrupts = EmptyQueue)
       /\ (op' = "IdtEmulationHandleInterruptWindowExiting"
           /\ PendingExternalInterrupts # EmptyQueue)
          => (CountWith(calls', "HvSetInterruptWindowExiting", 0) = 0
              /\ InterruptWindowExiting' = InterruptWindowExiting)
      ]_vars

\* A window exit has just delivered the last pending descriptor and the
\* control is still armed.
C16_Witness ==
    /\ op = "IdtEmulationHandleInterruptWindowExiting"
    /\ InjectionWrites(calls) # {}
    /\ PendingExternalInterrupts = EmptyQueue
    /\ InterruptWindowExiting

(***************************************************************************)
(* C17.  Overflow in the external-interrupt dispatcher.                    *)
(***************************************************************************)

\* C17: when the dispatcher has to defer a descriptor (a continuation flag
\* is set, or the descriptor is a valid external interrupt and the guest is
\* not interruptible) and every slot is occupied, the descriptor is neither
\* injected nor stored and every slot keeps its value; no failure is
\* reported (the enqueue's FALSE is dropped, no error is logged); the
\* instruction-pointer advance is suppressed; and, in the not-interruptible
\* case, the window control is armed all the same.
C17_OverflowIsSilentDrop ==
    [][(/\ op' = "IdtEmulationHandleExternalInterrupt"
        /\ QueueFull
        /\ \/ EnableExternalInterruptsOnContinue
           \/ EnableExternalInterruptsOnContinueMtf
           \/ (arg' < 0
               /\ (arg' \div 256) % 8 = INTERRUPT_TYPE_EXTERNAL_INTERRUPT
               /\ (~ReadIF' \/ ReadMovSs')))
       => /\ InjectionWrites(calls') = {}
          /\ ErrorCodeWrites(calls') = {}
          /\ PendingExternalInterrupts' = PendingExternalInterrupts
          /\ CountWith(calls', "IdtEmulationInjectInterruptWhenInterruptWindowIsOpen", 0) = 1
          /\ Count(calls', "LogError") = 0
          /\ ~IncrementRip'
          /\ (~EnableExternalInterruptsOnContinue /\ ~EnableExternalInterruptsOnContinueMtf)
             => (CountWith(calls', "HvSetInterruptWindowExiting", 1) = 1
                 /\ InterruptWindowExiting')
      ]_vars

\* With no flag set and the guest not interruptible, a valid external
\* interrupt has just been dropped on the full queue, which holds it in no
\* slot.
C17_Witness ==
    /\ ExternalUnsuppressed
    /\ ~ReadIF
    /\ QueueFull
    /\ CountWith(calls, "IdtEmulationInjectInterruptWhenInterruptWindowIsOpen", 0) = 1
    /\ \A i \in Slots : PendingExternalInterrupts[i] # arg
    /\ InterruptWindowExiting
    /\ ~IncrementRip

(***************************************************************************)
(* C18.  The window exit and the flags.                                    *)
(***************************************************************************)

\* C18: what a window exit does is decided by the queue alone, whatever the
\* three flags are: from the same queue it leaves the same queue, writes
\* the same descriptor (or none) to the entry-injection field, writes an
\* error code exactly when that descriptor asks for one, and disarms the
\* window control exactly when the queue was empty.
C18_DrainIgnoresFlags ==
    [][(op' = "IdtEmulationHandleInterruptWindowExiting")
       => /\ flags' = flags
          /\ IF PendingExternalInterrupts = EmptyQueue
             THEN /\ PendingExternalInterrupts' = EmptyQueue
                  /\ InjectionWrites(calls') = {}
                  /\ ErrorCodeWrites(calls') = {}
                  /\ CountWith(calls', "HvSetInterruptWindowExiting", 0) = 1
             ELSE /\ PendingExternalInterrupts' =
                         [PendingExternalInterrupts EXCEPT ![LowestPendingSlot] = NULL]
                  /\ {calls'[k][2] : k \in InjectionWrites(calls')} =
                         {PendingExternalInterrupts[LowestPendingSlot]}
                  /\ (ErrorCodeWrites(calls') # {})
                     <=> ((PendingExternalInterrupts[LowestPendingSlot] \div 2048) % 2 = 1)
                  /\ CountWith(calls', "HvSetInterruptWindowExiting", 0) = 0
          /\ CountWith(calls', "HvSetInterruptWindowExiting", 1) = 0
      ]_vars

\* A window exit has just delivered a descriptor with all three flags set.
C18_Witness ==
    /\ op = "IdtEmulationHandleInterruptWindowExiting"
    /\ EnableExternalInterruptsOnContinue
    /\ EnableExternalInterruptsOnContinueMtf
    /\ RegisterBreakOnMtf
    /\ InjectionWrites(calls) # {}

(***************************************************************************)
(* C19.  The all-zero descriptor.                                          *)
(***************************************************************************)

\* C19: an enqueue call given the all-zero descriptor while some slot is
\* free returns TRUE and leaves every slot as it was; and no drain call
\* ever returns the all-zero descriptor as one to inject.
C19_ZeroDescriptorIsLost ==
    /\ [][(/\ op' = "IdtEmulationInjectInterruptWhenInterruptWindowIsOpen"
           /\ arg' = 0
           /\ ~QueueFull)
          => (ret' /\ PendingExternalInterrupts' = PendingExternalInterrupts)]_vars
    /\ [](op = "IdtEmulationHandleInterruptWindowExiting"
          => \A k \in InjectionWrites(calls) : calls[k][2] # 0)

\* An enqueue call given the all-zero descriptor has just returned TRUE on
\* a queue with one descriptor pending and one slot free.
C19_Witness ==
    /\ op = "IdtEmulationInjectInterruptWhenInterruptWindowIsOpen"
    /\ arg = 0
    /\ ret
    /\ PendingExternalInterrupts[0] # NULL
    /\ PendingExternalInterrupts[1] = NULL

(***************************************************************************)
(* C20.  Pending descriptors and the window control.                       *)
(***************************************************************************)

\* C20: on a core that started with the queue empty and the window control
\* disarmed, whenever some slot is non-empty the control is armed.
C20_NonEmptyImpliesArmed ==
    (\E i \in Slots : PendingExternalInterrupts[i] # NULL) => InterruptWindowExiting

=============================================================================
